---- MODULE Spec2Model ----
\* The blog commands of omglol-cli (src/src/blog.ts): main resolves the feed URL,
\* validates the command, fetches the JSON feed and runs the timeline or the
\* status handler, writing lines to stdout or one error to stderr.
\*
\* Representation.  An instant (a JavaScript Date) is its getTime() value, an
\* integer number of milliseconds since the epoch.  An ISO-8601 date_published
\* string "YYYY-MM-DDThh:mm:ss.sssZ" is the record [day, ms]: the calendar day
\* counted in days since 1970-01-01 and the milliseconds into that day.  The
\* "YYYY-MM-DD" string produced by toISOString().split('T')[0] is represented
\* by the same day number.  The process runs in a local time zone, zone: the
\* offset from UTC before and after one change of offset (a daylight-saving
\* transition) at the instant at; a zone of fixed offset has before = after.
\* Date.setDate(getDate() + 1) moves the instant to the same wall-clock time of
\* the next local calendar day: by 23, 24 or 25 hours.
\* A date_published that is missing or does not parse has parses = FALSE; its
\* Date is an Invalid Date, whose getTime() is NaN.
EXTENDS Integers, Sequences, FiniteSets, TLC

\* ---------------------------------------------------------------- bounds
MaxPosts == 3
MaxDay == 2

\* ------------------------------------------------------------- constants
MsPerHour == 1000 * 60 * 60
MsPerDay == 1000 * 60 * 60 * 24

NoUrl == ""
NoCommand == "undefined"
knownCommands == {"timeline", "status"}

FetchPrefix == "Failed to fetch blog posts: "

\* ---------------------------------------------------------------- inputs
PostTimes == {10 * MsPerHour, 23 * MsPerHour + (MsPerHour \div 2)}
NowTimes == {1 * MsPerHour, 12 * MsPerHour}
DateStrings == [day : 0..MaxDay, ms : PostTimes, parses : {TRUE}]
Unparseable == [day |-> 0, ms |-> 0, parses |-> FALSE]
AnyDateStrings == DateStrings \cup {Unparseable}
Nows == {d * MsPerDay + t : d \in 0..(MaxDay + 1), t \in NowTimes}
Urls == {NoUrl, "https://test.weblog.lol/feed.json"}
EnvUrls == {NoUrl, "https://env.weblog.lol/feed.json"}
Commands == {"timeline", "status", "invalid-command", NoCommand}
ErrorStatuses == {404, 500}

\* The time zones of the process: UTC, and a zone that goes from UTC to UTC+1
\* (clocks forward) or from UTC+1 to UTC (clocks back) at 01:00 UTC of day 1.
Zone(at, before, after) == [at |-> at, before |-> before, after |-> after]
UtcZone == Zone(0, 0, 0)
Zones ==
    {UtcZone,
     Zone(MsPerDay + MsPerHour, 0, MsPerHour),
     Zone(MsPerDay + MsPerHour, MsPerHour, 0)}

\* items: the feed's list, each item with its id and its date_published
ItemsOf(ds) == [i \in 1..Len(ds) |-> [id |-> i, date_published |-> ds[i]]]
ItemListsOver(dates) ==
    {ItemsOf(ds) : ds \in UNION {[1..n -> dates] : n \in 0..MaxPosts}}
ItemLists == ItemListsOver(DateStrings)

\* What the server answers: no answer at all (kind "network": fetch rejects;
\* kind "pending": fetch never settles), a non-success status, a body that
\* never completes (stalls: response.json() never settles), a body that is no
\* JSON, the JSON body null, a JSON body without items, or a feed.
Response(kind, status, json, hasItems, items) ==
    [kind |-> kind, status |-> status, stalls |-> FALSE, json |-> json,
     isNull |-> FALSE, hasItems |-> hasItems, items |-> items]
NullBody == [Response("http", 200, TRUE, FALSE, <<>>) EXCEPT !.isNull = TRUE]
StalledBody == [Response("http", 200, FALSE, FALSE, <<>>) EXCEPT !.stalls = TRUE]
Responses ==
    {Response("network", 0, FALSE, FALSE, <<>>)}
    \cup {Response("pending", 0, FALSE, FALSE, <<>>)}
    \cup {NullBody}
    \cup {StalledBody}
    \cup {Response("http", s, TRUE, FALSE, <<>>) : s \in ErrorStatuses}
    \cup {Response("http", 200, FALSE, FALSE, <<>>)}
    \cup {Response("http", 200, TRUE, FALSE, <<>>)}
    \cup {Response("http", 200, TRUE, TRUE, it) : it \in ItemLists}

VARIABLES url, envUrl, command, response, now, zone,
          pc, calls, feed, posts, firstDate, lastDate, postCounts, currentDate,
          error, stdout, stderr, exitCode

inputs == <<url, envUrl, command, response, now, zone>>
locals == <<posts, firstDate, lastDate, postCounts, currentDate>>
outputs == <<stdout, stderr, exitCode>>
vars == <<url, envUrl, command, response, now, zone,
          pc, calls, feed, posts, firstDate, lastDate, postCounts, currentDate,
          error, stdout, stderr, exitCode>>

\* ------------------------------------------------------- date helpers
\* NaN, the time value of an Invalid Date: an integer outside every range of
\* instants and day counts that occurs; no arithmetic is ever done on it.
NaN == 0 - 2147483647

getPostDate(post) ==
    IF post.date_published.parses
    THEN post.date_published.day * MsPerDay + post.date_published.ms
    ELSE NaN

getDateString(date) == date \div MsPerDay

\* getDaysBetween without counting the boundary day
getDaysBetweenExclusive(start, end) == (end - start) \div MsPerDay

getDaysBetween(start, end) ==
    IF start = NaN \/ end = NaN THEN NaN ELSE ((end - start) \div MsPerDay) + 1

\* date.getTimezoneOffset(), with the sign of the offset from UTC
offsetAt(t, z) == IF t >= z.at THEN z.after ELSE z.before

\* The local calendar day of an instant, date.getDate() counted in days
localDay(t, z) == (t + offsetAt(t, z)) \div MsPerDay

\* date.setDate(date.getDate() + 1): the same wall-clock time on the next local
\* day.  Across a change of offset the instant moves by a day less the change;
\* a wall-clock time the change makes ambiguous or skips is read with the
\* offset before the change.
nextLocalDay(t, z) ==
    LET plain == t + MsPerDay
        moved == t + MsPerDay - (z.after - z.before)
    IN IF t >= z.at \/ plain < z.at THEN plain
       ELSE IF moved >= z.at THEN moved
       ELSE plain

\* Array.prototype.sort is stable: an item is inserted after the items whose
\* date is not later than its own.
RECURSIVE InsertByDate(_, _)
InsertByDate(sorted, post) ==
    IF sorted = <<>> THEN <<post>>
    ELSE IF getPostDate(post) - getPostDate(sorted[Len(sorted)]) >= 0
         THEN Append(sorted, post)
         ELSE Append(InsertByDate(SubSeq(sorted, 1, Len(sorted) - 1), post),
                     sorted[Len(sorted)])

RECURSIVE SortFrom(_, _, _)
SortFrom(items, i, acc) ==
    IF i > Len(items) THEN acc
    ELSE SortFrom(items, i + 1, InsertByDate(acc, items[i]))

sortPostsByDate(items) == SortFrom(items, 1, <<>>)

\* What [...posts].sort(comparator) may return.  With every date valid the
\* comparator is consistent and the result is the stable ascending order.  With
\* an Invalid Date the comparator returns NaN, it is no consistent comparator
\* and the order is left to the implementation: any permutation.
Reorderings(items) ==
    {[i \in 1..Len(items) |-> items[f[i]]] :
        f \in {g \in [1..Len(items) -> 1..Len(items)] :
                  \A i, j \in 1..Len(items) : g[i] = g[j] => i = j}}

SortOutcomes(items) ==
    IF \A i \in DOMAIN items : getPostDate(items[i]) # NaN
    THEN {sortPostsByDate(items)}
    ELSE Reorderings(items)

\* postCounts.get(date) || 0
CountOf(counts, date) == IF date \in DOMAIN counts THEN counts[date] ELSE 0

\* postCounts.set(date, n)
MapSet(counts, date, n) ==
    [d \in (DOMAIN counts) \cup {date} |-> IF d = date THEN n ELSE counts[d]]

EmptyMap == [d \in {} |-> 0]

RECURSIVE CountFrom(_, _, _)
CountFrom(ps, i, counts) ==
    IF i > Len(ps) THEN counts
    ELSE LET date == getDateString(getPostDate(ps[i]))
         IN CountFrom(ps, i + 1, MapSet(counts, date, CountOf(counts, date) + 1))

\* postCounts.set(date, 1) instead of incrementing
RECURSIVE MarkFrom(_, _, _)
MarkFrom(ps, i, counts) ==
    IF i > Len(ps) THEN counts
    ELSE MarkFrom(ps, i + 1, MapSet(counts, getDateString(getPostDate(ps[i])), 1))

buildPostCountsNoIncrement(ps) == MarkFrom(ps, 1, EmptyMap)

buildPostCounts(ps) == CountFrom(ps, 1, EmptyMap)

\* ------------------------------------------------------------ output
outputDecorator(line, mode) == [line |-> line, mode |-> mode]

TimelineLine(dateStr, count) == [kind |-> "row", date |-> dateStr, count |-> count,
                                 total |-> 0, days |-> 0, delta |-> 0]

StatusText(total, dayCount, delta) == [kind |-> "status", date |-> 0, count |-> 0,
                                       total |-> total, days |-> dayCount, delta |-> delta]

Err(prefix, text, arg, code) == [prefix |-> prefix, text |-> text, arg |-> arg, code |-> code]
NoError == Err("", "", "", 0)

\* --------------------------------------------------------------- Init
\* One invocation of main.  The URL, the environment and the command are
\* combined in every way with the answers that carry no posts.  Every feed is
\* handled by both known commands at one clock reading in UTC; the feeds of
\* fewer than MaxPosts items are also combined with every clock reading for
\* the status, which reads the clock, and with every time zone for the
\* timeline, which steps through local days.
FeedResponses == {r \in Responses : r.hasItems}
ShorterFeedResponses == {r \in FeedResponses : Len(r.items) < MaxPosts}
NoonOfLastDay == MaxDay * MsPerDay + 12 * MsPerHour
Invocations ==
    {<<u, e, c, r, n, UtcZone>> : u \in Urls, e \in EnvUrls, c \in Commands,
                         r \in {x \in Responses : x.items = <<>>},
                         n \in {MsPerDay + 12 * MsPerHour}}
    \cup {<<u, NoUrl, c, r, NoonOfLastDay, UtcZone>> :
              u \in Urls \ {NoUrl}, c \in knownCommands, r \in FeedResponses}
    \cup {<<u, NoUrl, "status", r, n, UtcZone>> :
              u \in Urls \ {NoUrl}, r \in ShorterFeedResponses, n \in Nows}
    \cup {<<u, NoUrl, "timeline", r, NoonOfLastDay, z>> :
              u \in Urls \ {NoUrl}, r \in ShorterFeedResponses, z \in Zones}

\* The invocations whose feed may hold items with a missing or unparseable
\* date_published.
AnyDateInvocations ==
    {<<u, NoUrl, c, Response("http", 200, TRUE, TRUE, it), NoonOfLastDay, UtcZone>> :
        u \in Urls \ {NoUrl}, c \in knownCommands,
        it \in {x \in ItemListsOver(AnyDateStrings) : Len(x) < MaxPosts}}

Start(inv) ==
    /\ url = inv[1]
    /\ envUrl = inv[2]
    /\ command = inv[3]
    /\ response = inv[4]
    /\ now = inv[5]
    /\ zone = inv[6]
    /\ pc = "main"
    /\ calls = <<>>
    /\ feed = <<>>
    /\ posts = <<>>
    /\ firstDate = 0
    /\ lastDate = 0
    /\ postCounts = EmptyMap
    /\ currentDate = 0
    /\ error = NoError
    /\ stdout = <<>>
    /\ stderr = <<>>
    /\ exitCode = <<>>

Init == \E inv \in Invocations : Start(inv)

InitAnyDates == \E inv \in AnyDateInvocations : Start(inv)

\* ------------------------------------------------------------- main
\* calls: the calls main has made so far, fetchJSON(url) and the handlers.
Call(fn, arg) == [fn |-> fn, arg |-> arg]

\* process.env.BLOG_FEED_URL || url
resolveFeedUrlEnvFirst(u, e) == IF e # NoUrl THEN e ELSE u

\* url || process.env.BLOG_FEED_URL
resolveFeedUrl(u, e) == IF u # NoUrl THEN u ELSE e

\* main without the command check: an unknown command reaches fetchJSON and
\* then falls through the switch.
MainStartNoCommandCheck ==
    /\ pc = "main"
    /\ LET feedUrl == resolveFeedUrl(url, envUrl)
       IN IF feedUrl = NoUrl
          THEN /\ error' = Err("", "Blog feed URL not provided", "", 0)
               /\ pc' = "catch"
               /\ calls' = calls
          ELSE /\ error' = error
               /\ pc' = "fetch"
               /\ calls' = Append(calls, Call("fetchJSON", feedUrl))
    /\ UNCHANGED <<inputs, feed, locals, outputs>>

\* main with the two checks swapped: the command is validated before the URL.
MainStartCommandFirst ==
    /\ pc = "main"
    /\ LET feedUrl == resolveFeedUrl(url, envUrl)
       IN IF command = NoCommand \/ command \notin knownCommands
          THEN /\ error' = Err("", "Unknown blog command: ", command, 0)
               /\ pc' = "catch"
               /\ calls' = calls
          ELSE IF feedUrl = NoUrl
          THEN /\ error' = Err("", "Blog feed URL not provided", "", 0)
               /\ pc' = "catch"
               /\ calls' = calls
          ELSE /\ error' = error
               /\ pc' = "fetch"
               /\ calls' = Append(calls, Call("fetchJSON", feedUrl))
    /\ UNCHANGED <<inputs, feed, locals, outputs>>

\* main, lines 110-121: resolve the URL, validate the command, call fetchJSON.
MainStart ==
    /\ pc = "main"
    /\ LET feedUrl == resolveFeedUrl(url, envUrl)
       IN IF feedUrl = NoUrl
          THEN /\ error' = Err("", "Blog feed URL not provided", "", 0)
               /\ pc' = "catch"
               /\ calls' = calls
          ELSE IF command = NoCommand \/ command \notin knownCommands
          THEN /\ error' = Err("", "Unknown blog command: ", command, 0)
               /\ pc' = "catch"
               /\ calls' = calls
          ELSE /\ error' = error
               /\ pc' = "fetch"
               /\ calls' = Append(calls, Call("fetchJSON", feedUrl))
    /\ UNCHANGED <<inputs, feed, locals, outputs>>

\* fetchJSON throwing the wrapped error with the given text
FetchThrows(text, code) ==
    /\ error' = Err(FetchPrefix, text, "", code)
    /\ pc' = "catch"
    /\ feed' = feed

\* fetchJSON returning the data
FetchReturns ==
    /\ error' = error
    /\ pc' = command
    /\ feed' = response.items

\* fetchJSON without the response.ok test: the body of an error answer is read
FetchJSONNoStatusCheck ==
    /\ pc = "fetch"
    /\ response.kind # "pending"
    /\ IF response.kind = "network" THEN FetchThrows("FetchError.message", 0)
       ELSE /\ pc' = "json"
            /\ UNCHANGED <<error, feed>>
    /\ UNCHANGED <<inputs, calls, locals, outputs>>

\* fetchJSON fetching a second time after a failure
FetchJSONRetryOnce ==
    /\ pc = "fetch"
    /\ response.kind # "pending"
    /\ IF response.kind = "network" \/ response.status < 200 \/ response.status > 299
       THEN IF Len(calls) < 2
            THEN /\ calls' = Append(calls, Call("fetchJSON", resolveFeedUrl(url, envUrl)))
                 /\ UNCHANGED <<error, pc, feed>>
            ELSE /\ calls' = calls
                 /\ IF response.kind = "network"
                    THEN FetchThrows("FetchError.message", 0)
                    ELSE FetchThrows("Server returned ", response.status)
       ELSE /\ calls' = calls
            /\ pc' = "json"
            /\ UNCHANGED <<error, feed>>
    /\ UNCHANGED <<inputs, locals, outputs>>

\* fetchJSON, lines 43-46: the awaited fetch settles (a pending one never
\* does); a rejection or a non-success status is thrown and wrapped by the
\* catch of lines 54-58, otherwise response.json() is called and awaited.
FetchJSON ==
    /\ pc = "fetch"
    /\ response.kind # "pending"
    /\ IF response.kind = "network"
       THEN FetchThrows("FetchError.message", 0)
       ELSE IF response.status < 200 \/ response.status > 299
       THEN FetchThrows("Server returned ", response.status)
       ELSE /\ pc' = "json"
            /\ UNCHANGED <<error, feed>>
    /\ UNCHANGED <<inputs, calls, locals, outputs>>

\* fetchJSON, lines 48-57: the awaited response.json() settles (on a body that
\* never completes it never does).  A body that
\* is no JSON rejects with a SyntaxError; on the body null, data.items throws a
\* TypeError; a body without items throws 'Invalid response format'.  Every
\* error is wrapped by the catch.
FetchJSONBody ==
    /\ pc = "json"
    /\ ~response.stalls
    /\ IF ~response.json THEN FetchThrows("SyntaxError.message", 0)
       ELSE IF response.isNull
       THEN FetchThrows("Cannot read properties of null (reading 'items')", 0)
       ELSE IF ~response.hasItems THEN FetchThrows("Invalid response format", 0)
       ELSE FetchReturns
    /\ UNCHANGED <<inputs, calls, locals, outputs>>

\* handleTimeline without the early return: posts[0] is undefined on an empty
\* list and getPostDate throws a TypeError, which main catches.
HandleTimelineStartNoGuard ==
    /\ pc = "timeline"
    /\ calls' = Append(calls, Call("handleTimeline", ""))
    /\ \E sorted \in SortOutcomes(feed) :
          /\ posts' = sorted
          /\ IF Len(sorted) = 0
             THEN /\ pc' = "catch"
                  /\ error' = Err("", "TypeError.message", "", 0)
                  /\ UNCHANGED <<firstDate, lastDate, postCounts, currentDate>>
             ELSE IF \E i \in DOMAIN sorted : getPostDate(sorted[i]) = NaN
             THEN /\ firstDate' = getPostDate(sorted[1])
                  /\ lastDate' = getPostDate(sorted[Len(sorted)])
                  /\ error' = Err("", "Invalid time value", "", 0)
                  /\ pc' = "catch"
                  /\ UNCHANGED <<postCounts, currentDate>>
             ELSE /\ firstDate' = getPostDate(sorted[1])
                  /\ lastDate' = getPostDate(sorted[Len(sorted)])
                  /\ postCounts' = buildPostCounts(sorted)
                  /\ currentDate' = getPostDate(sorted[1])
                  /\ pc' = "timelineLoop"
                  /\ error' = error
    /\ UNCHANGED <<inputs, feed, outputs>>

\* handleTimeline, lines 63-81: sort, return on an empty list, take the first
\* and last dates, count the posts of each day, start the cursor.  For a post
\* with an Invalid Date, toISOString in getDateString (line 76) throws a
\* RangeError before anything is printed; main catches it.
HandleTimelineStart ==
    /\ pc = "timeline"
    /\ calls' = Append(calls, Call("handleTimeline", ""))
    /\ \E sorted \in SortOutcomes(feed) :
          /\ posts' = sorted
          /\ IF Len(sorted) = 0
             THEN /\ pc' = "done"
                  /\ error' = error
                  /\ UNCHANGED <<firstDate, lastDate, postCounts, currentDate>>
             ELSE IF \E i \in DOMAIN sorted : getPostDate(sorted[i]) = NaN
             THEN /\ firstDate' = getPostDate(sorted[1])
                  /\ lastDate' = getPostDate(sorted[Len(sorted)])
                  /\ error' = Err("", "Invalid time value", "", 0)
                  /\ pc' = "catch"
                  /\ UNCHANGED <<postCounts, currentDate>>
             ELSE /\ firstDate' = getPostDate(sorted[1])
                  /\ lastDate' = getPostDate(sorted[Len(sorted)])
                  /\ postCounts' = buildPostCounts(sorted)
                  /\ currentDate' = getPostDate(sorted[1])
                  /\ pc' = "timelineLoop"
                  /\ error' = error
    /\ UNCHANGED <<inputs, feed, outputs>>

\* A timeline line that is never decorated
TimelineRowUndecorated(dateStr, count) ==
    outputDecorator(TimelineLine(dateStr, count), "normal")

\* One line of the timeline: undecorated for a day with posts, 'error' for a gap.
TimelineRow(dateStr, count) ==
    outputDecorator(TimelineLine(dateStr, count), IF count = 0 THEN "error" ELSE "normal")

\* The loop without currentDate.setDate(currentDate.getDate() + 1): the cursor
\* stays on the first day.
TimelineIterNoAdvance ==
    /\ pc = "timelineLoop"
    /\ currentDate <= lastDate
    /\ LET dateStr == getDateString(currentDate)
           count == CountOf(postCounts, dateStr)
       IN stdout' = Append(stdout, TimelineRow(dateStr, count))
    /\ UNCHANGED <<inputs, pc, calls, feed, posts, firstDate, lastDate, postCounts,
                   currentDate, error, stderr, exitCode>>

\* One iteration of the while loop, lines 82-88.
TimelineIter ==
    /\ pc = "timelineLoop"
    /\ currentDate <= lastDate
    /\ LET dateStr == getDateString(currentDate)
           count == CountOf(postCounts, dateStr)
       IN stdout' = Append(stdout, TimelineRow(dateStr, count))
    /\ currentDate' = nextLocalDay(currentDate, zone)
    /\ UNCHANGED <<inputs, pc, calls, feed, posts, firstDate, lastDate, postCounts,
                   error, stderr, exitCode>>

\* The loop condition fails: handleTimeline returns and main ends.
TimelineExit ==
    /\ pc = "timelineLoop"
    /\ ~(currentDate <= lastDate)
    /\ pc' = "done"
    /\ UNCHANGED <<inputs, calls, feed, locals, error, outputs>>

\* handleStatus with the delta taken the other way round
StatusOutputDeltaSwapped(sorted, today) ==
    IF Len(sorted) = 0
    THEN <<outputDecorator(StatusText(0, 0, 0), "normal")>>
    ELSE LET total == Len(sorted)
             dayCount == getDaysBetween(getPostDate(sorted[1]), today)
         IN <<outputDecorator(StatusText(total, dayCount, dayCount - total), "normal")>>

\* handleStatus returning on an empty list without printing, as handleTimeline does
StatusOutputSilentWhenEmpty(sorted, today) ==
    IF Len(sorted) = 0
    THEN <<>>
    ELSE LET total == Len(sorted)
             dayCount == getDaysBetween(getPostDate(sorted[1]), today)
         IN <<outputDecorator(StatusText(total, dayCount, total - dayCount), "normal")>>

\* The line(s) handleStatus prints for the sorted posts at clock reading today.
StatusOutput(sorted, today) ==
    IF Len(sorted) = 0
    THEN <<outputDecorator(StatusText(0, 0, 0), "normal")>>
    ELSE LET total == Len(sorted)
             first == getPostDate(sorted[1])
             dayCount == getDaysBetween(first, today)
             delta == IF dayCount = NaN THEN NaN ELSE total - dayCount
         IN <<outputDecorator(StatusText(total, dayCount, delta), "normal")>>

\* handleStatus, lines 91-106; new Date() reads the clock.
HandleStatus ==
    /\ pc = "status"
    /\ calls' = Append(calls, Call("handleStatus", ""))
    /\ \E sorted \in SortOutcomes(feed) :
          /\ posts' = sorted
          /\ stdout' = stdout \o StatusOutput(sorted, now)
    /\ pc' = "done"
    /\ UNCHANGED <<inputs, feed, firstDate, lastDate, postCounts, currentDate,
                   error, stderr, exitCode>>

\* main's catch block without process.exit(1)
MainCatchNoExit ==
    /\ pc = "catch"
    /\ stderr' = Append(stderr, outputDecorator(error, "error"))
    /\ pc' = "exit"
    /\ UNCHANGED <<inputs, calls, feed, locals, error, stdout, exitCode>>

\* main's catch block, lines 130-137: one decorated message, then exit(1).
MainCatch ==
    /\ pc = "catch"
    /\ stderr' = Append(stderr, outputDecorator(error, "error"))
    /\ exitCode' = Append(exitCode, 1)
    /\ pc' = "exit"
    /\ UNCHANGED <<inputs, calls, feed, locals, error, stdout>>

Next ==
    \/ MainStart
    \/ FetchJSON
    \/ FetchJSONBody
    \/ HandleTimelineStart
    \/ TimelineIter
    \/ TimelineExit
    \/ HandleStatus
    \/ MainCatch

Spec == Init /\ [][Next]_vars

\* The same program on feeds that may hold unparseable dates.
SpecAnyDates == InitAnyDates /\ [][Next]_vars

\* Every invocation of either kind.
SpecAll == (Init \/ InitAnyDates) /\ [][Next]_vars

\* main runs to its end: the process keeps taking the next step of the
\* program while there is one.
FairSpec == SpecAll /\ WF_vars(Next)

\* ------------------------------------------------ a handler called twice
\* The same feed handed to the same handler a second time, as a caller of
\* handleTimeline(feed) or handleStatus(feed) may do; the system clock does not
\* stand still between the two calls.  stdout collects the output of both.
TwiceInit ==
    /\ url \in Urls \ {NoUrl}
    /\ envUrl = NoUrl
    /\ command \in knownCommands
    /\ \E r \in FeedResponses : response = r /\ feed = r.items
    /\ now \in Nows
    /\ zone = UtcZone
    /\ pc = command
    /\ calls = <<>>
    /\ posts = <<>>
    /\ firstDate = 0
    /\ lastDate = 0
    /\ postCounts = EmptyMap
    /\ currentDate = 0
    /\ error = NoError
    /\ stdout = <<>>
    /\ stderr = <<>>
    /\ exitCode = <<>>

CallAgain ==
    /\ pc = "done"
    /\ Len(calls) = 1
    /\ now' \in {n \in Nows : n >= now}
    /\ pc' = command
    /\ UNCHANGED <<url, envUrl, command, response, zone, calls, feed, locals, error, outputs>>

TwiceNext ==
    \/ HandleTimelineStart
    \/ TimelineIter
    \/ TimelineExit
    \/ HandleStatus
    \/ CallAgain

TwiceSpec == TwiceInit /\ [][TwiceNext]_vars

\* ------------------------------------- a handler called on a reordered feed
\* The handler is called on a feed and then on a feed holding the same items
\* in another order, at the same clock reading.  stdout collects the output of
\* both calls.  The feed may hold items whose date_published does not parse.
\* The first call gets the items oldest first, those without a date in front;
\* the second call gets them in any order.
OldestFirst(items) ==
    \A i, j \in DOMAIN items :
        i < j => \/ ~items[i].date_published.parses
                 \/ /\ items[j].date_published.parses
                    /\ getPostDate(items[i]) <= getPostDate(items[j])

ShuffleInit ==
    /\ url \in Urls \ {NoUrl}
    /\ envUrl = NoUrl
    /\ command \in knownCommands
    /\ \E it \in {x \in ItemListsOver(AnyDateStrings) : OldestFirst(x)} :
          response = Response("http", 200, TRUE, TRUE, it) /\ feed = it
    /\ now \in {MsPerDay + t : t \in NowTimes}
    /\ zone = UtcZone
    /\ pc = command
    /\ calls = <<>>
    /\ posts = <<>>
    /\ firstDate = 0
    /\ lastDate = 0
    /\ postCounts = EmptyMap
    /\ currentDate = 0
    /\ error = NoError
    /\ stdout = <<>>
    /\ stderr = <<>>
    /\ exitCode = <<>>

CallShuffled ==
    /\ pc = "done"
    /\ Len(calls) = 1
    /\ feed' \in Reorderings(feed)
    /\ pc' = command
    /\ UNCHANGED <<inputs, calls, locals, error, outputs>>

ShuffleNext ==
    \/ HandleTimelineStart
    \/ TimelineIter
    \/ TimelineExit
    \/ HandleStatus
    \/ CallShuffled

ShuffleSpec == ShuffleInit /\ [][ShuffleNext]_vars

\* ===================================================== the core (entries feed)
\* The feed variant of spec.md 4.1 and 4.2 whose entries carry an epoch-seconds
\* timestamp and a type: Feed Normalizer and Metrics Engine.  Here feed is the
\* payload's entry list, posts the normalized PostDate sequence (day numbers)
\* and command the request made of the engine.
MaxEntries == 2

SecondsPerDay == 60 * 60 * 24
CoreRequests == {"historical timeline", "live timeline", "status"}
EntryTypes == {"post", "page"}

Entry(date, hasType, type) == [date |-> date, hasType |-> hasType, type |-> type]
Entries ==
    {Entry(d * SecondsPerDay + (t \div 1000), TRUE, ty) :
        d \in 0..MaxDay, t \in PostTimes, ty \in EntryTypes}
    \cup {Entry(d * SecondsPerDay + (t \div 1000), FALSE, "") :
        d \in 0..MaxDay, t \in PostTimes}
EntryLists == UNION {[1..n -> Entries] : n \in 0..MaxEntries}

\* No type filtering: every entry is kept.
keepsAnyType(entry) == TRUE

\* Type filtering: an entry without the discriminator is kept, one with it is
\* kept only when its type is the literal post.
isPost(entry) == ~entry.hasType \/ entry.type = "post"

\* Timestamp parsing: epoch seconds to milliseconds, truncated to the UTC day.
toPostDate(entry) == (entry.date * 1000) \div MsPerDay

\* Sort: ascending by day, ties kept in their relative order.
RECURSIVE InsertDay(_, _)
InsertDay(sorted, day) ==
    IF sorted = <<>> THEN <<day>>
    ELSE IF day >= sorted[Len(sorted)]
         THEN Append(sorted, day)
         ELSE Append(InsertDay(SubSeq(sorted, 1, Len(sorted) - 1), day),
                     sorted[Len(sorted)])

RECURSIVE NormalizeFrom(_, _, _)
NormalizeFrom(entries, i, acc) ==
    IF i > Len(entries) THEN acc
    ELSE NormalizeFrom(entries, i + 1,
                       IF isPost(entries[i]) THEN InsertDay(acc, toPostDate(entries[i]))
                       ELSE acc)

normalize(entries) == NormalizeFrom(entries, 1, <<>>)

\* DateBucketMap: posts per day.
RECURSIVE BucketFrom(_, _, _)
BucketFrom(days, i, counts) ==
    IF i > Len(days) THEN counts
    ELSE BucketFrom(days, i + 1, MapSet(counts, days[i], CountOf(counts, days[i]) + 1))

dateBucketMap(days) == BucketFrom(days, 1, EmptyMap)

\* Every timeline ending at the latest post's day.
endAtLatestPost(request, days, instant) == days[Len(days)]

\* The end boundary of a timeline request: the current UTC day for a live
\* timeline, the latest post's day for a historical one.
timelineEnd(request, days, instant) ==
    IF request = "live timeline" THEN instant \div MsPerDay ELSE days[Len(days)]

\* One row per day of [start, end], ascending, 0 for a day without bucket.
RECURSIVE RowsFrom(_, _, _)
RowsFrom(day, end, counts) ==
    IF day > end THEN <<>>
    ELSE <<TimelineRow(day, CountOf(counts, day))>> \o RowsFrom(day + 1, end, counts)

computeTimeline(days, asOfDay) ==
    IF days = <<>> THEN <<>>
    ELSE RowsFrom(days[1], asOfDay, dateBucketMap(days))

computeStatus(days, instant) ==
    IF days = <<>> THEN StatusText(0, 0, 0)
    ELSE LET total == Len(days)
             dayCount == (((instant \div MsPerDay) * MsPerDay - days[1] * MsPerDay)
                            \div MsPerDay) + 1
         IN StatusText(total, dayCount, total - dayCount)

CoreInit ==
    /\ command \in CoreRequests
    /\ feed \in EntryLists
    /\ now \in Nows
    /\ zone = UtcZone
    /\ url = NoUrl
    /\ envUrl = NoUrl
    /\ response = Response("http", 200, TRUE, FALSE, <<>>)
    /\ pc = "normalize"
    /\ calls = <<>>
    /\ posts = <<>>
    /\ firstDate = 0
    /\ lastDate = 0
    /\ postCounts = EmptyMap
    /\ currentDate = 0
    /\ error = NoError
    /\ stdout = <<>>
    /\ stderr = <<>>
    /\ exitCode = <<>>

\* Feed Normalizer: the caller's payload becomes the PostDate sequence.
Normalize ==
    /\ pc = "normalize"
    /\ posts' = normalize(feed)
    /\ pc' = IF command = "status" THEN "computeStatus" ELSE "computeTimeline"
    /\ UNCHANGED <<inputs, calls, feed, firstDate, lastDate, postCounts, currentDate,
                   error, outputs>>

\* Metrics Engine, timeline view; the caller renders the rows.
ComputeTimeline ==
    /\ pc = "computeTimeline"
    /\ stdout' = IF posts = <<>> THEN <<>>
                 ELSE computeTimeline(posts, timelineEnd(command, posts, now))
    /\ pc' = "done"
    /\ UNCHANGED <<inputs, calls, feed, locals, error, stderr, exitCode>>

\* Metrics Engine, status view.
ComputeStatus ==
    /\ pc = "computeStatus"
    /\ stdout' = <<outputDecorator(computeStatus(posts, now), "normal")>>
    /\ pc' = "done"
    /\ UNCHANGED <<inputs, calls, feed, locals, error, stderr, exitCode>>

CoreNext ==
    \/ Normalize
    \/ ComputeTimeline
    \/ ComputeStatus

CoreSpec == CoreInit /\ [][CoreNext]_vars

\* ================================================================ claims
\* The calendar day written in an item's date_published, and the instant of
\* UTC midnight of an instant.
DayOf(item) == item.date_published.day
UtcMidnight(t) == (t \div MsPerDay) * MsPerDay
FeedDays == {DayOf(feed[j]) : j \in DOMAIN feed}
EarliestDay == CHOOSE d \in FeedDays : \A e \in FeedDays : d <= e
LatestDay == CHOOSE d \in FeedDays : \A e \in FeedDays : e <= d
EarliestInstant ==
    CHOOSE t \in {getPostDate(feed[j]) : j \in DOMAIN feed} :
        \A j \in DOMAIN feed : t <= getPostDate(feed[j])
PostsOn(day) == Cardinality({j \in DOMAIN feed : DayOf(feed[j]) = day})

RECURSIVE SumCounts(_)
SumCounts(rows) ==
    IF rows = <<>> THEN 0 ELSE rows[1].line.count + SumCounts(Tail(rows))

TimelineFinished == pc = "done" /\ command = "timeline" /\ feed # <<>>
StatusFinished == pc = "done" /\ command = "status" /\ feed # <<>>

\* The invocation was given a URL, a known command and a well-formed feed
\* without any posts.
EmptyFeedGiven(cmd) ==
    /\ command = cmd
    /\ (url # NoUrl \/ envUrl # NoUrl)
    /\ response.kind = "http" /\ response.status = 200
    /\ response.json /\ response.hasItems /\ response.items = <<>>

\* C1: for a non-empty feed the finished timeline has (end_day - start_day) + 1
\* rows, the consecutive UTC days from the earliest post's day to the latest
\* post's day, whatever the times of day of the first and last posts.
C1_TimelineCoversEveryDay ==
    TimelineFinished =>
        /\ Len(stdout) = (LatestDay - EarliestDay) + 1
        /\ \A i \in DOMAIN stdout : stdout[i].line.date = EarliestDay + (i - 1)

\* C2: for a non-empty feed the counts of the finished timeline's rows add up
\* to the number of posts.
C2_CountsSumToPosts ==
    TimelineFinished => SumCounts(stdout) = Len(feed)

\* C3: for a non-empty feed, Days is the inclusive number of UTC calendar days
\* from the earliest post's day through now's day, both truncated to midnight.
C3_DaysIsInclusiveCalendarDays ==
    StatusFinished =>
        stdout[1].line.days =
            ((UtcMidnight(now) - EarliestDay * MsPerDay) \div MsPerDay) + 1

\* C4: for a non-empty feed the status line reports Total = number of posts
\* (same-day posts counted separately) and Delta = Total - Days.
C4_TotalAndDelta ==
    StatusFinished =>
        /\ Len(stdout) = 1
        /\ stdout[1].line.kind = "status"
        /\ stdout[1].line.total = Len(feed)
        /\ stdout[1].line.delta = stdout[1].line.total - stdout[1].line.days

C4_Witness ==
    /\ StatusFinished
    /\ Len(feed) >= 2
    /\ Cardinality(FeedDays) < Len(feed)
    /\ stdout[1].line.delta < 0

\* C5 as stated: with at least one post, Days >= 1 for every clock reading,
\* also one earlier than the first post.
C5_DaysAtLeastOne ==
    StatusFinished => stdout[1].line.days >= 1

\* C5 amended: with at least one post and a clock reading not earlier than the
\* earliest post's timestamp, Days >= 1.
C5_DaysAtLeastOneFromFirstPost ==
    (StatusFinished /\ now >= EarliestInstant) => stdout[1].line.days >= 1

C5_Witness ==
    /\ StatusFinished
    /\ now >= EarliestInstant
    /\ now - EarliestInstant < MsPerDay
    /\ stdout[1].line.days = 1

\* C6: on an empty post list the status command prints exactly
\* "Total: 0, Days: 0, Delta: 0", whatever the clock reads, writes no error
\* and never exits.
C6_EmptyStatus ==
    EmptyFeedGiven("status") =>
        /\ stderr = <<>> /\ exitCode = <<>>
        /\ pc \notin {"catch", "exit"}
        /\ pc # "done" => stdout = <<>>
        /\ pc = "done" => stdout = <<outputDecorator(StatusText(0, 0, 0), "normal")>>

C6_Witness ==
    /\ EmptyFeedGiven("status")
    /\ pc = "done"
    /\ now # MsPerDay + 12 * MsPerHour
    /\ Len(stdout) = 1

\* C7: on an empty post list the timeline command prints nothing, writes no
\* error and never exits: the invocation ends normally.
C7_EmptyTimeline ==
    EmptyFeedGiven("timeline") =>
        /\ stdout = <<>> /\ stderr = <<>> /\ exitCode = <<>>
        /\ pc \in {"main", "fetch", "json", "timeline", "done"}

C7_Witness ==
    /\ EmptyFeedGiven("timeline")
    /\ pc = "done"
    /\ feed = <<>>

\* C8: every emitted timeline row carries the number of posts whose timestamp
\* falls on the row's UTC day, 0 when there is none.
C8_RowCountsArePostsOfTheDay ==
    command = "timeline" =>
        \A i \in DOMAIN stdout :
            /\ stdout[i].line.kind = "row"
            /\ stdout[i].line.count = PostsOn(stdout[i].line.date)

C8_Witness ==
    /\ TimelineFinished
    /\ \E i \in DOMAIN stdout : stdout[i].line.count = 0
    /\ \E i \in DOMAIN stdout : stdout[i].line.count >= 2

\* ------------------------------------------------- claims about the core
\* An entry counts as a post unless it carries a type other than "post"; the
\* UTC day of an entry is that of its epoch-seconds timestamp.
Counted(j) == ~feed[j].hasType \/ feed[j].type = "post"
EntryDay(j) == feed[j].date \div SecondsPerDay
CountedOn(day) == Cardinality({j \in DOMAIN feed : Counted(j) /\ EntryDay(j) = day})
CountedDays == {EntryDay(j) : j \in {k \in DOMAIN feed : Counted(k)}}
Today == now \div MsPerDay

\* C9: entries with a type other than "post" count neither in the status Total
\* nor in any timeline row; entries without a type field are always counted.
C9_OnlyPostsAreCounted ==
    pc = "done" =>
        /\ Len(posts) = Cardinality({j \in DOMAIN feed : Counted(j)})
        /\ command = "status" =>
              stdout[1].line.total = Cardinality({j \in DOMAIN feed : Counted(j)})
        /\ command # "status" =>
              \A i \in DOMAIN stdout :
                  stdout[i].line.count = CountedOn(stdout[i].line.date)

C9_Witness ==
    /\ pc = "done"
    /\ command = "status"
    /\ \E j \in DOMAIN feed : feed[j].hasType /\ feed[j].type = "page"
    /\ \E j \in DOMAIN feed : ~feed[j].hasType
    /\ stdout[1].line.total = 1

\* C10: the live timeline of a non-empty post sequence has one row for each day
\* from the earliest post's day through the current UTC day, in ascending order,
\* and every day after the last post up to today is a zero-count row.
C10_LiveTimelineRunsToToday ==
    (pc = "done" /\ command = "live timeline" /\ posts # <<>>) =>
        LET start == CHOOSE d \in CountedDays : \A e \in CountedDays : d <= e
            last == CHOOSE d \in CountedDays : \A e \in CountedDays : e <= d
        IN /\ Len(stdout) = IF Today >= start THEN (Today - start) + 1 ELSE 0
           /\ \A i \in DOMAIN stdout : stdout[i].line.date = start + (i - 1)
           /\ \A i \in DOMAIN stdout :
                  stdout[i].line.date > last =>
                      stdout[i].line.count = 0 /\ stdout[i].mode = "error"

C10_Witness ==
    /\ pc = "done" /\ command = "live timeline" /\ posts # <<>>
    /\ Len(stdout) >= 3
    /\ stdout[Len(stdout)].line.date = Today
    /\ stdout[Len(stdout)].line.count = 0
    /\ stdout[Len(stdout) - 1].line.count = 0
    /\ stdout[1].line.count >= 1

\* ------------------------------------------- claims about main and fetchJSON
\* main got a URL and a known command, so that it calls fetchJSON.
Fetching == resolveFeedUrl(url, envUrl) # NoUrl /\ command \in knownCommands
GoodBody == response.kind = "http" /\ response.status = 200 /\ response.json
Reported(err) == stderr = <<outputDecorator(err, "error")>> /\ exitCode = <<1>>
FetchCalls == {i \in DOMAIN calls : calls[i].fn = "fetchJSON"}
HandlerCalls == {i \in DOMAIN calls : calls[i].fn # "fetchJSON"}

\* C11: a payload without the entry list is rejected with 'Failed to fetch blog
\* posts: Invalid response format', nothing on stdout and exit code 1; a payload
\* whose list is present but empty is accepted without any error.
C11_MissingListRejectedEmptyListAccepted ==
    /\ (Fetching /\ GoodBody /\ ~response.hasItems) =>
          /\ stdout = <<>>
          /\ pc \in {"main", "fetch", "json", "catch", "exit"}
          /\ pc = "exit" => Reported(Err(FetchPrefix, "Invalid response format", "", 0))
    /\ (Fetching /\ GoodBody /\ response.hasItems /\ response.items = <<>>) =>
          /\ stderr = <<>> /\ exitCode = <<>>
          /\ pc \in {"main", "fetch", "json", "timeline", "status", "done"}

C11_Witness ==
    /\ Fetching /\ GoodBody /\ ~response.hasItems
    /\ pc = "exit"
    /\ Len(stderr) = 1

\* C12: on a non-success HTTP status c every command fails with 'Failed to
\* fetch blog posts: Server returned c', prints nothing, exits with code 1, and
\* neither the payload validation nor a handler is reached.
C12_ServerErrorReported ==
    (Fetching /\ response.kind = "http" /\ response.status \notin 200..299) =>
        /\ stdout = <<>> /\ feed = <<>>
        /\ HandlerCalls = {}
        /\ pc \in {"main", "fetch", "catch", "exit"}
        /\ pc \in {"catch", "exit"} =>
              error = Err(FetchPrefix, "Server returned ", "", response.status)
        /\ pc = "exit" =>
              Reported(Err(FetchPrefix, "Server returned ", "", response.status))

C12_Witness ==
    /\ Fetching /\ response.kind = "http" /\ response.status = 404
    /\ command = "status"
    /\ pc = "exit"
    /\ Len(stderr) = 1

\* C13: a network failure of the fetch is reported as 'Failed to fetch blog
\* posts: Network error', not as the underlying library's message.
C13_NetworkErrorMessage ==
    (Fetching /\ response.kind = "network" /\ pc = "exit") =>
        Reported(Err(FetchPrefix, "Network error", "", 0))

\* C14: the explicit URL is fetched when given, otherwise the environment's;
\* with neither, main fails with 'Blog feed URL not provided', exit code 1,
\* nothing on stdout and no fetch.
C14_UrlResolution ==
    /\ url # NoUrl => \A i \in FetchCalls : calls[i].arg = url
    /\ (url = NoUrl /\ envUrl # NoUrl) => \A i \in FetchCalls : calls[i].arg = envUrl
    /\ (url = NoUrl /\ envUrl = NoUrl) =>
          /\ calls = <<>> /\ stdout = <<>>
          /\ pc \in {"main", "catch", "exit"}
          /\ pc = "exit" => Reported(Err("", "Blog feed URL not provided", "", 0))

C14_Witness ==
    /\ url # NoUrl /\ envUrl # NoUrl
    /\ FetchCalls # {}
    /\ calls[1].arg = url
    /\ pc = "done"

\* C15 as stated: whenever the command is absent or unknown, main fails with
\* 'Unknown blog command: <command>'.
C15_UnknownCommandAlways ==
    (command \notin knownCommands /\ pc = "exit") =>
        Reported(Err("", "Unknown blog command: ", command, 0))

\* C15 amended: when a feed URL is resolved and the command is absent or
\* unknown, main fails with 'Unknown blog command: <command>', exit code 1,
\* nothing on stdout and no fetch.
C15_UnknownCommandWithUrl ==
    (resolveFeedUrl(url, envUrl) # NoUrl /\ command \notin knownCommands) =>
        /\ calls = <<>> /\ stdout = <<>>
        /\ pc \in {"main", "catch", "exit"}
        /\ pc = "exit" => Reported(Err("", "Unknown blog command: ", command, 0))

C15_Witness ==
    /\ resolveFeedUrl(url, envUrl) # NoUrl
    /\ command = NoCommand
    /\ pc = "exit"
    /\ stderr[1].line.arg = "undefined"

\* C16: an invocation that fails has written exactly one error to stderr,
\* nothing to stdout and has exit code 1; one that succeeds has written nothing
\* to stderr and never requests exit; an invocation ends in one of the two
\* ways unless it waits for ever for the answer or for its body.
C16_SucceedsOrFailsAtomically ==
    /\ pc = "exit" => Len(stderr) = 1 /\ stdout = <<>> /\ exitCode = <<1>>
    /\ pc = "catch" => stdout = <<>>
    /\ pc # "exit" => stderr = <<>> /\ exitCode = <<>>
    /\ ~(ENABLED Next) =>
          \/ pc \in {"done", "exit"}
          \/ pc = "fetch" /\ response.kind = "pending"
          \/ pc = "json" /\ response.stalls

C16_Witness ==
    /\ pc = "exit"
    /\ command = "timeline"
    /\ \E j \in DOMAIN feed : feed[j].date_published.parses
    /\ \E j \in DOMAIN feed : ~feed[j].date_published.parses
    /\ Len(stderr) = 1 /\ stdout = <<>>

\* C17: a post whose timestamp is missing or unparseable makes the invocation
\* fail with an error, for the timeline and for the status command alike; no
\* result is printed normally.
C17_BadTimestampFails ==
    ((\E j \in DOMAIN feed : ~feed[j].date_published.parses) /\ pc \in {"done", "exit"}) =>
        /\ pc = "exit"
        /\ stdout = <<>>
        /\ Len(stderr) = 1

\* C18: each handler called twice on the same feed prints the same output
\* twice; the status output depends on no clock read inside handleStatus.
C18_SameInputSameOutput ==
    (pc = "done" /\ Len(calls) = 2) =>
        /\ Len(stdout) % 2 = 0
        /\ \A i \in 1..(Len(stdout) \div 2) : stdout[i] = stdout[i + (Len(stdout) \div 2)]

\* C19: a timeline row is rendered with the 'error' decoration exactly when
\* its count is 0.
C19_GapRowsDecorated ==
    command = "timeline" =>
        \A i \in DOMAIN stdout : (stdout[i].mode = "error") <=> (stdout[i].line.count = 0)

C19_Witness ==
    /\ TimelineFinished
    /\ \E i \in DOMAIN stdout : stdout[i].mode = "error" /\ stdout[i].line.count = 0
    /\ \E i \in DOMAIN stdout : stdout[i].mode = "normal" /\ stdout[i].line.count > 0

\* C20: main fetches at most once and never retries; a failed fetch or a
\* rejected payload ends in the error without any handler; a successful fetch
\* is followed by exactly one handler, that of the command.
C20_OneFetchOneHandler ==
    /\ Cardinality(FetchCalls) <= 1
    /\ Cardinality(HandlerCalls) <= 1
    /\ HandlerCalls # {} => FetchCalls = {1} /\ HandlerCalls = {2}
    /\ (Fetching /\ ~(GoodBody /\ response.hasItems)) =>
          /\ pc \in {"main", "fetch", "json", "catch", "exit"}
          /\ HandlerCalls = {}
          /\ pc \in {"catch", "exit"} => Len(calls) = 1
    /\ pc \in {"timelineLoop", "done"} =>
          calls = <<Call("fetchJSON", resolveFeedUrl(url, envUrl)),
                    Call(IF command = "timeline" THEN "handleTimeline" ELSE "handleStatus", "")>>

C20_Witness ==
    /\ pc = "exit"
    /\ Fetching /\ response.kind = "http" /\ response.status = 500
    /\ Len(calls) = 1

\* C21: main validates in a fixed order, the feed URL first, the command
\* second, the fetch only after both pass: without a resolved URL the reported
\* error is 'Blog feed URL not provided' whatever the command is, fetchJSON is
\* called only for a known command with a resolved URL, and only such an
\* invocation can report a fetch error.
C21_ValidationOrder ==
    /\ (pc = "exit" /\ resolveFeedUrl(url, envUrl) = NoUrl) =>
            Reported(Err("", "Blog feed URL not provided", "", 0))
    /\ (pc \in {"fetch", "json"} \/ FetchCalls # {}) => Fetching
    /\ error.prefix = FetchPrefix => (Fetching /\ FetchCalls # {})

C21_Witness ==
    /\ pc = "exit"
    /\ url = NoUrl /\ envUrl = NoUrl
    /\ command = "invalid-command"
    /\ Reported(Err("", "Blog feed URL not provided", "", 0))
    /\ calls = <<>>

\* C22: the output of a handler does not depend on the order of the items in
\* the feed: called on the feed and on a reordering of it, it prints the same
\* rows, or the same status line, both times.
C22_OrderIndependent ==
    (pc = "done" /\ Len(calls) = 2) =>
        /\ Len(stdout) % 2 = 0
        /\ \A i \in 1..(Len(stdout) \div 2) :
              stdout[i].line = stdout[i + (Len(stdout) \div 2)].line

\* C23: the timeline loop terminates.  It is entered only with a finite first
\* and last date; each iteration prints one row and moves the cursor to the
\* next local calendar day, a later instant; the cursor never passes the end
\* boundary by more than one such step, and the loop always ends.
C23_TimelineLoopTerminates ==
    /\ [](pc = "timelineLoop" =>
            /\ firstDate # NaN /\ lastDate # NaN
            /\ localDay(currentDate, zone) = localDay(firstDate, zone) + Len(stdout)
            /\ currentDate <= lastDate + MsPerDay + MsPerHour)
    /\ [][TimelineIter =>
            /\ localDay(currentDate', zone) = localDay(currentDate, zone) + 1
            /\ currentDate' > currentDate
            /\ Len(stdout') = Len(stdout) + 1]_vars
    /\ ((pc = "timelineLoop") ~> (pc = "done"))

C23_Witness ==
    /\ TimelineFinished
    /\ Len(stdout) >= 2
    /\ currentDate > lastDate
    /\ localDay(currentDate, zone) = localDay(firstDate, zone) + Len(stdout)
    /\ zone # UtcZone /\ firstDate < zone.at /\ zone.at < currentDate

====
